---------------------------- MODULE Spec2Model ----------------------------
(***************************************************************************)
(* PDF digital-signature extraction and validation engine.                 *)
(*                                                                         *)
(* Signature Locator   : extractSignatures, hexToBytes                     *)
(* Signature Validator : validateSignature                                 *)
(* Batch orchestration : validatePdfSignatures, countSignatures            *)
(* Collaborators       : the certificate relay (cors-proxy-worker.js) and  *)
(*                       the background preload scheduler                  *)
(*                                                                         *)
(* A document is held as its length and the places where the Locator's     *)
(* regular expressions can match (one token per possible match, with the   *)
(* offset and length of the matched text and the captured groups).  The    *)
(* Locator's window arithmetic is done on real byte offsets.               *)
(***************************************************************************)
EXTENDS Integers, Sequences, FiniteSets, TLC

VARIABLES
    pdf,          \* pdfBytes: [length, tokens]
    trustedCert,  \* trustedCert argument of validatePdfSignatures (option)
    op,           \* exported function running (or last run)
    pc,           \* position inside the running function
    lastIndex,    \* sigRegex.lastIndex
    sigIndex,     \* extractSignatures: let sigIndex
    signatures,   \* extractSignatures: const signatures
    warnings,     \* console.warn calls made by the catch of extractSignatures
    origins,      \* per pushed record, the dictionaries its fields were read from
    results,      \* rows produced so far by signatures.map(...)
    count,        \* value returned by countSignatures (option)
    batch,        \* value returned by validatePdfSignatures (option)
    vcall,        \* arguments of a direct validateSignature call (option)
    vret,         \* completion of that call (option)
    \* certificate relay (cors-proxy-worker.js), one request
    request,      \* the request being handled (option)
    upstream,     \* target URLs handed to fetch(targetUrl, ...), in order
    relayPc,      \* "idle", "awaitFetch" (line 139) or "done"
    settled,      \* what the upstream fetch came to (option)
    response,     \* the Response the handler returned (option)
    \* background preload scheduler (module state of one page)
    preloadState,     \* const preloadState
    pymupdfInstance,  \* let pymupdfInstance ("null" or "instance")
    isLibreOfficePage,\* window.location.pathname names a LibreOffice page
    tasks,            \* per scheduled idle task, where it stands
    loaderCalls,      \* per module, how many times its loader was invoked
    \* PDF editor page
    currentPdfUrl,    \* let currentPdfUrl (option of an object URL)
    objectUrls,       \* per URL.createObjectURL result, "live" or "revoked"
    loads,            \* per handleFiles call that reached its await: [fileURL, pc]
    viewerInits,      \* EmbedPDF.init calls: src, and what src was at that moment
    removeBtn,        \* the file row with its remove button is displayed
    backBtn,          \* click listener of #back-to-tools: "initial" or "resetting"
    pageOpen          \* FALSE once the page has navigated away

engineVars == <<pdf, trustedCert, op, pc, lastIndex, sigIndex, signatures,
                warnings, origins, results, count, batch, vcall, vret>>

relayVars == <<request, upstream, relayPc, settled, response>>

preloadVars == <<preloadState, pymupdfInstance, isLibreOfficePage, tasks,
                 loaderCalls>>

editorVars == <<currentPdfUrl, objectUrls, loads, viewerInits, removeBtn, backBtn,
                pageOpen>>

vars == <<engineVars, relayVars, preloadVars, editorVars>>

(***************************************************************************)
(* Bounds of the model.                                                    *)
(***************************************************************************)
MaxDicts == 2     \* signature dictionaries in a document
MaxIndex == 1     \* largest index of a signature handed to validateSignature
MaxHexLen == 6    \* hex digits of a payload handed to hexToBytes on its own
MaxCalls == 3     \* startBackgroundPreload calls that schedule a task, per page
MaxUploads == 3   \* PDF files handed to handleFiles of the editor page

(***************************************************************************)
(* Generic helpers.                                                        *)
(***************************************************************************)
None == <<>>
Some(x) == <<x>>

Min(a, b) == IF a < b THEN a ELSE b
Max(a, b) == IF a > b THEN a ELSE b

(***************************************************************************)
(* hexToBytes: pairs of hex digits to bytes, then trailing zero bytes      *)
(* stripped.  A hex string is a sequence of digit values 0..15.            *)
(***************************************************************************)
RECURSIVE StripTrailingZeros(_, _)
StripTrailingZeros(bytes, actualLength) ==
    IF actualLength > 0 /\ bytes[actualLength] = 0
    THEN StripTrailingZeros(bytes, actualLength - 1)
    ELSE actualLength

\* Mutant of hexToBytes: the padding is left in place.
hexToBytesNoStrip(hex) ==
    [k \in 1..(Len(hex) \div 2) |-> hex[2 * k - 1] * 16 + hex[2 * k]]

\* bytes.slice(0, actualLength) after the while loop of lines 274-277.
StripPadding(bytes) == SubSeq(bytes, 1, StripTrailingZeros(bytes, Len(bytes)))

hexToBytes(hex) ==
    LET bytes == [k \in 1..(Len(hex) \div 2) |-> hex[2 * k - 1] * 16 + hex[2 * k]]
    IN  StripPadding(bytes)

(***************************************************************************)
(* decodeURIComponent(escape(s)): the bytes of a PDF literal string read   *)
(* as UTF-8.  Returns [ok, value]; ok = FALSE stands for the URIError that *)
(* decodeURIComponent throws on a malformed sequence.                      *)
(***************************************************************************)
IsContinuation(b) == b >= 128 /\ b <= 191

RECURSIVE Utf8Decode(_, _, _)
Utf8Decode(s, i, acc) ==
    IF i > Len(s) THEN [ok |-> TRUE, value |-> acc]
    ELSE IF s[i] < 128 THEN Utf8Decode(s, i + 1, Append(acc, s[i]))
    ELSE IF s[i] >= 194 /\ s[i] <= 223 /\ i + 1 <= Len(s) /\ IsContinuation(s[i + 1])
         THEN Utf8Decode(s, i + 2,
                         Append(acc, (s[i] - 192) * 64 + (s[i + 1] - 128)))
    ELSE IF s[i] >= 224 /\ s[i] <= 239 /\ i + 2 <= Len(s)
            /\ IsContinuation(s[i + 1]) /\ IsContinuation(s[i + 2])
            /\ (s[i] # 224 \/ s[i + 1] >= 160)
         THEN Utf8Decode(s, i + 3,
                         Append(acc, (s[i] - 224) * 4096 + (s[i + 1] - 128) * 64
                                     + (s[i + 2] - 128)))
    ELSE [ok |-> FALSE, value |-> <<>>]

decodeText(s) == Utf8Decode(s, 1, <<>>)


(***************************************************************************)
(* Documents.  A signature dictionary is written marker first, then its    *)
(* /ByteRange, /Contents, /Reason and /M entries when it has them.  Each   *)
(* entry becomes one token: the text one of the Locator's patterns         *)
(* matches, with its offset, its length in bytes and its captured groups.  *)
(* `dict` records which dictionary the token was written in; the code      *)
(* never reads it.                                                         *)
(***************************************************************************)
HexLeafPadded == <<0, 2, 0, 0>>      \* "0200": one payload byte, padded
HexNoCerts    == <<0, 1>>            \* "01"
HexAllZero    == <<0, 0>>            \* "00": nothing but padding

HexPayloads == {HexLeafPadded, HexNoCerts, HexAllZero}

TextUtf8   == <<67, 195, 169>>       \* "C" followed by U+00E9 in UTF-8
TextLatin1 == <<233>>                \* U+00E9 as one PDFDocEncoding byte

PdfDate == <<2024, 1, 15, 10, 30, 0>>   \* (D:20240115103000

TextAscii == <<72, 81>>

MetaNone ==
    [reason |-> None, location |-> None, contactInfo |-> None,
     name   |-> None, time |-> None]

MetaFull ==
    [reason |-> Some(TextUtf8), location |-> Some(TextAscii),
     contactInfo |-> Some(TextAscii), name |-> Some(TextUtf8),
     time   |-> Some(PdfDate)]

MetaLatin1 ==
    [reason |-> Some(TextLatin1), location |-> None, contactInfo |-> None,
     name   |-> None, time |-> None]

MetaChoices == {MetaNone, MetaFull, MetaLatin1}

\* Dictionaries carrying both /ByteRange and /Contents.
WellFormedSpecs ==
    [ br       : {TRUE},
      contents : {Some(h) : h \in HexPayloads},
      meta     : MetaChoices ]

\* Dictionaries lacking /ByteRange, /Contents or both.
MalformedSpecs ==
    [ br       : {FALSE},
      contents : {None, Some(HexLeafPadded)},
      meta     : {MetaNone, MetaLatin1} ]
    \cup
    [ br       : {TRUE},
      contents : {None},
      meta     : {MetaNone, MetaLatin1} ]

DictSpecs == WellFormedSpecs \cup MalformedSpecs

DocSpecs == UNION { [1..n -> DictSpecs] : n \in 0..MaxDicts }

\* Bytes between the end of one dictionary and the marker of the next.
Spacings == {20, 20000}

TokenLen(kind, val) ==
    CASE kind = "Sig"       -> 9                 \* /Type/Sig
      [] kind = "ByteRange" -> 40                \* space padded, as signers write it
      [] kind = "Contents"  -> Len(val) + 11     \* /Contents<...>
      [] kind = "Reason"    -> Len(val) + 9      \* /Reason(...)
      [] kind = "Location"    -> Len(val) + 11   \* /Location(...)
      [] kind = "ContactInfo" -> Len(val) + 14   \* /ContactInfo(...)
      [] kind = "Name"        -> Len(val) + 7    \* /Name(...)
      [] kind = "M"         -> 19                \* /M(D:YYYYMMDDHHmmss

\* The entries of dictionary d, in the order they are written.
DictFields(d) ==
    <<[kind |-> "Sig", val |-> <<>>]>>
    \o (IF d.br THEN <<[kind |-> "ByteRange", val |-> <<>>]>> ELSE <<>>)
    \o (IF d.contents # None
        THEN <<[kind |-> "Contents", val |-> d.contents[1]]>> ELSE <<>>)
    \o (IF d.meta.reason # None
        THEN <<[kind |-> "Reason", val |-> d.meta.reason[1]]>> ELSE <<>>)
    \o (IF d.meta.location # None
        THEN <<[kind |-> "Location", val |-> d.meta.location[1]]>> ELSE <<>>)
    \o (IF d.meta.contactInfo # None
        THEN <<[kind |-> "ContactInfo", val |-> d.meta.contactInfo[1]]>> ELSE <<>>)
    \o (IF d.meta.name # None
        THEN <<[kind |-> "Name", val |-> d.meta.name[1]]>> ELSE <<>>)
    \o (IF d.meta.time # None
        THEN <<[kind |-> "M", val |-> d.meta.time[1]]>> ELSE <<>>)

RECURSIVE PlaceFields(_, _, _, _)
PlaceFields(fields, k, pos, dict) ==
    IF k > Len(fields) THEN <<>>
    ELSE LET len == TokenLen(fields[k].kind, fields[k].val)
         IN  <<[kind |-> fields[k].kind, val |-> fields[k].val,
                pos |-> pos, len |-> len, dict |-> dict]>>
             \o PlaceFields(fields, k + 1, pos + len + 1, dict)

EndOf(tokens, start) ==
    IF tokens = <<>> THEN start
    ELSE tokens[Len(tokens)].pos + tokens[Len(tokens)].len

RECURSIVE PlaceDicts(_, _, _, _)
PlaceDicts(spec, i, pos, spacing) ==
    IF i > Len(spec) THEN <<>>
    ELSE LET toks == PlaceFields(DictFields(spec[i]), 1, pos, i)
         IN  toks \o PlaceDicts(spec, i + 1, EndOf(toks, pos) + spacing, spacing)

\* The document: a 15 byte header, the dictionaries, a 6 byte trailer.  Every
\* /ByteRange is written as a signer writes it: [0 a b c] with b + c the
\* length of the document.
BuildPdf(spec, spacing) ==
    LET placed == PlaceDicts(spec, 1, 15, spacing)
        length == EndOf(placed, 15) + 6
        Fill(t) == IF t.kind = "ByteRange"
                   THEN [t EXCEPT !.val = <<0, t.pos, t.pos + t.len,
                                            length - (t.pos + t.len)>>]
                   ELSE t
    IN  [length |-> length,
         tokens |-> [k \in 1..Len(placed) |-> Fill(placed[k])]]

(***************************************************************************)
(* Signature Locator: one iteration of the while loop of extractSignatures *)
(***************************************************************************)
WindowBefore == 5000
WindowAfter  == 10000

\* sigRegex.exec: the markers at or after lastIndex.
MarkersFrom(doc, from) ==
    { k \in 1..Len(doc.tokens) :
        doc.tokens[k].kind = "Sig" /\ doc.tokens[k].pos >= from }

NextMarker(doc, from) ==
    CHOOSE k \in MarkersFrom(doc, from) :
        \A j \in MarkersFrom(doc, from) : doc.tokens[k].pos <= doc.tokens[j].pos

\* context.match(pattern): the leftmost text of that kind lying wholly inside
\* pdfString.substring(searchStart, searchEnd); None when there is none.
InWindow(doc, kind, searchStart, searchEnd) ==
    { k \in 1..Len(doc.tokens) :
        /\ doc.tokens[k].kind = kind
        /\ doc.tokens[k].pos >= searchStart
        /\ doc.tokens[k].pos + doc.tokens[k].len <= searchEnd }

ContextMatch(doc, kind, searchStart, searchEnd) ==
    LET S == InWindow(doc, kind, searchStart, searchEnd)
    IN  IF S = {} THEN None
        ELSE Some(CHOOSE k \in S : \A j \in S : doc.tokens[k].pos <= doc.tokens[j].pos)

\* `${Y}-${M}-${D}T${h}:${m}:${s}` of the six captured groups.
FormatSigningTime(groups) ==
    [date |-> <<groups[1], groups[2], groups[3]>>,
     time |-> <<groups[4], groups[5], groups[6]>>]

\* The literal strings decoded by lines 94-97.
TextKinds == {"Reason", "Location", "ContactInfo", "Name"}

\* if (!byteRangeMatch) continue;  if (!contentsMatch) continue;
Continue(why, idx) ==
    [outcome |-> why, sigIndex |-> idx, pushed |-> None, from |-> None]

\* Mutant of CatchExtractError: the error leaves extractSignatures.
CatchExtractErrorRethrows(idx) ==
    [outcome |-> "thrown", sigIndex |-> idx, pushed |-> None, from |-> None]

\* catch (e) { console.warn(...) }: the loop goes on; idx is sigIndex as the
\* catch clause finds it.
CatchExtractError(idx) ==
    [outcome |-> "caught", sigIndex |-> idx, pushed |-> None, from |-> None]

\* The body of the loop for the marker at token m, with sigIndex = idx.
\* outcome: "noByteRange" / "noContents" (continue), "caught" (the catch
\* clause ran), "pushed"; "thrown" would be an error leaving the function.  In the object literal handed to push,
\* `index: sigIndex++` is evaluated before the text fields are decoded, so a
\* URIError leaves sigIndex incremented.  `from` records the dictionaries the
\* matched /ByteRange and /Contents were written in (not read by the code).
ProcessMarker(doc, m, idx) ==
    LET at          == doc.tokens[m].pos
        searchStart == Max(0, at - WindowBefore)
        searchEnd   == Min(doc.length, at + WindowAfter)
        Match(kind) == ContextMatch(doc, kind, searchStart, searchEnd)
        brM  == Match("ByteRange")
        cM   == Match("Contents")
        tM   == Match("M")
        \* x ? decodeURIComponent(escape(x[1])) : undefined
        Text(kind) == LET mt == Match(kind)
                      IN  IF mt = None THEN [ok |-> TRUE, value |-> None]
                          ELSE LET d == decodeText(doc.tokens[mt[1]].val)
                               IN  [ok |-> d.ok, value |-> Some(d.value)]
        reason      == Text("Reason")
        location    == Text("Location")
        contactInfo == Text("ContactInfo")
        name        == Text("Name")
    IN  IF brM = None THEN Continue("noByteRange", idx)
        ELSE IF cM = None THEN Continue("noContents", idx)
        ELSE IF ~(reason.ok /\ location.ok /\ contactInfo.ok /\ name.ok)
             THEN CatchExtractError(idx + 1)
        ELSE [outcome  |-> "pushed",
              sigIndex |-> idx + 1,
              pushed   |-> Some([index       |-> idx,
                                 contents    |-> hexToBytes(doc.tokens[cM[1]].val),
                                 byteRange   |-> doc.tokens[brM[1]].val,
                                 reason      |-> reason.value,
                                 location    |-> location.value,
                                 contactInfo |-> contactInfo.value,
                                 name        |-> name.value,
                                 signingTime |-> IF tM = None THEN None
                                                 ELSE Some(FormatSigningTime(
                                                          doc.tokens[tM[1]].val))]),
              from     |-> Some([byteRange |-> doc.tokens[brM[1]].dict,
                                 contents  |-> doc.tokens[cM[1]].dict])]

(***************************************************************************)
(* The signed-data decoder and the certificates (node-forge), as far as    *)
(* validateSignature reads them.  A certificate issues another when its    *)
(* subject is the other's issuer.  Dates are milliseconds since the epoch. *)
(***************************************************************************)
OidSha256WithRsa == "1.2.840.113549.1.1.11"
OidUnlisted      == "1.2.840.113549.1.1.10"

CertLeaf ==
    [serialNumber |-> "01", subject |-> "leaf", issuer |-> "inter",
     subjectCN |-> Some("Alice"), issuerCN |-> Some("Inter CA"),
     subjectO |-> Some("Example Ltd"), subjectE |-> None,
     subjectEmailAddress |-> Some("alice@example.com"), issuerO |-> None,
     notBefore |-> 10, notAfter |-> 20,
     siginfoOid |-> OidSha256WithRsa, signatureOid |-> OidSha256WithRsa]
CertInter ==
    [serialNumber |-> "02", subject |-> "inter", issuer |-> "root",
     subjectCN |-> Some("Inter CA"), issuerCN |-> Some("Root CA"),
     subjectO |-> None, subjectE |-> None,
     subjectEmailAddress |-> None, issuerO |-> None,
     notBefore |-> 5, notAfter |-> 30,
     siginfoOid |-> OidSha256WithRsa, signatureOid |-> OidSha256WithRsa]
CertRoot ==
    [serialNumber |-> "03", subject |-> "root", issuer |-> "root",
     subjectCN |-> Some("Root CA"), issuerCN |-> Some("Root CA"),
     subjectO |-> Some("Root Org"), subjectE |-> None,
     subjectEmailAddress |-> None, issuerO |-> Some("Root Org"),
     notBefore |-> 1, notAfter |-> 40,
     siginfoOid |-> OidUnlisted, signatureOid |-> ""]
\* Another authority's certificate that happens to carry serial number 01.
CertSameSerial ==
    [serialNumber |-> "01", subject |-> "elsewhere", issuer |-> "elsewhere",
     subjectCN |-> None, issuerCN |-> None,
     subjectO |-> None, subjectE |-> None,
     subjectEmailAddress |-> None, issuerO |-> None,
     notBefore |-> 1, notAfter |-> 40,
     siginfoOid |-> OidSha256WithRsa, signatureOid |-> OidSha256WithRsa]
CertStranger ==
    [serialNumber |-> "09", subject |-> "stranger", issuer |-> "stranger",
     subjectCN |-> Some("Mallory"), issuerCN |-> Some("Mallory"),
     subjectO |-> None, subjectE |-> None,
     subjectEmailAddress |-> None, issuerO |-> None,
     notBefore |-> 1, notAfter |-> 40,
     siginfoOid |-> OidSha256WithRsa, signatureOid |-> OidSha256WithRsa]

OidSigningTime == "1.2.840.113549.1.9.5"    \* forge.pki.oids.signingTime

isIssuer(parent, child) == child.issuer = parent.subject

\* forge.asn1.fromDer followed by forge.pkcs7.messageFromAsn1 on the payload
\* bytes: a thrown Error, or the message with its certificates and its
\* captured authenticated attributes when it has them.
Decode(bytes) ==
    LET Ok(certs, attrs) == [ok |-> TRUE, error |-> None,
                             certificates |-> certs,
                             authenticatedAttributes |-> attrs]
        Err(msg) == [ok |-> FALSE,
                     error |-> Some([isError |-> TRUE, message |-> msg]),
                     certificates |-> <<>>, authenticatedAttributes |-> None]
    IN  CASE bytes = <<1>> -> Ok(<<>>, None)
          [] bytes = <<2>> -> Ok(<<CertLeaf, CertInter>>,
                                 Some(<<[type |-> "contentType", value |-> 0],
                                        [type |-> OidSigningTime, value |-> 15]>>))
          [] bytes = <<3>> -> Ok(<<CertRoot>>, None)
          [] bytes = <<4>> -> Ok(<<CertLeaf>>, None)
          [] bytes = <<>>  -> Err("Too few bytes to parse DER.")
          [] OTHER         -> Err("Unparsed DER bytes remain after ASN.1 parsing.")

PayloadBytes == { <<>>, <<1>>, <<2>>, <<3>>, <<4>>, <<2, 0>> }

(***************************************************************************)
(* getDigestAlgorithmName / getSignatureAlgorithmName                      *)
(***************************************************************************)
DigestAlgorithms ==
    [oid \in {"1.2.840.113549.2.5", "1.3.14.3.2.26", "2.16.840.1.101.3.4.2.1",
              "2.16.840.1.101.3.4.2.2", "2.16.840.1.101.3.4.2.3",
              "2.16.840.1.101.3.4.2.4"} |->
        CASE oid = "1.2.840.113549.2.5"     -> "MD5"
          [] oid = "1.3.14.3.2.26"          -> "SHA-1"
          [] oid = "2.16.840.1.101.3.4.2.1" -> "SHA-256"
          [] oid = "2.16.840.1.101.3.4.2.2" -> "SHA-384"
          [] oid = "2.16.840.1.101.3.4.2.3" -> "SHA-512"
          [] OTHER                          -> "SHA-224"]

SignatureAlgorithms ==
    [oid \in {"1.2.840.113549.1.1.1", "1.2.840.113549.1.1.5",
              "1.2.840.113549.1.1.11", "1.2.840.113549.1.1.12",
              "1.2.840.113549.1.1.13", "1.2.840.10045.2.1", "1.2.840.10045.4.1",
              "1.2.840.10045.4.3.2", "1.2.840.10045.4.3.3",
              "1.2.840.10045.4.3.4"} |->
        CASE oid = "1.2.840.113549.1.1.1"  -> "RSA"
          [] oid = "1.2.840.113549.1.1.5"  -> "RSA with SHA-1"
          [] oid = "1.2.840.113549.1.1.11" -> "RSA with SHA-256"
          [] oid = "1.2.840.113549.1.1.12" -> "RSA with SHA-384"
          [] oid = "1.2.840.113549.1.1.13" -> "RSA with SHA-512"
          [] oid = "1.2.840.10045.2.1"     -> "ECDSA"
          [] oid = "1.2.840.10045.4.1"     -> "ECDSA with SHA-1"
          [] oid = "1.2.840.10045.4.3.2"   -> "ECDSA with SHA-256"
          [] oid = "1.2.840.10045.4.3.3"   -> "ECDSA with SHA-384"
          [] OTHER                         -> "ECDSA with SHA-512"]

\* Mutant of getDigestAlgorithmName: an identifier outside the table is
\* reported as 'Unknown'.
getDigestAlgorithmNameTableOnly(oid) ==
    IF oid \in DOMAIN DigestAlgorithms THEN DigestAlgorithms[oid] ELSE "Unknown"

getDigestAlgorithmName(oid) ==
    IF oid \in DOMAIN DigestAlgorithms THEN DigestAlgorithms[oid]
    ELSE IF oid # "" THEN oid ELSE "Unknown"

getSignatureAlgorithmName(oid) ==
    IF oid \in DOMAIN SignatureAlgorithms THEN SignatureAlgorithms[oid]
    ELSE IF oid # "" THEN oid ELSE "Unknown"

(***************************************************************************)
(* Signature Validator.                                                    *)
(*                                                                         *)
(* env is what the call meets outside its arguments: the clock (new        *)
(* Date()) and the library call, if any, that throws, with the value it    *)
(* throws: "fields" (subject/issuer getField), "selfSigned"                *)
(* (signerCert.isIssuer), "trust" (a trustedCert.isIssuer call),           *)
(* "attributes" (reading the authenticated attributes).                    *)
(* A completion is [type |-> "return", value |-> result] or                *)
(* [type |-> "throw", value |-> thrown].                                   *)
(***************************************************************************)
ZeroDate == 0        \* new Date(0)

Return(v) == [type |-> "return", value |-> v]
Throw(e)  == [type |-> "throw", value |-> e]

\* new Date("YYYY-MM-DDTHH:mm:ss"): local time of the fields, or Invalid Date.
\* The time value is counted in seconds from the year 2000.
NewDateFromString(st) ==
    IF /\ st.date[2] \in 1..12 /\ st.date[3] \in 1..31
       /\ st.time[1] \in 0..23 /\ st.time[2] \in 0..59 /\ st.time[3] \in 0..59
    THEN [valid |-> TRUE,
          ms |-> (((((st.date[1] - 2000) * 12 + st.date[2]) * 31 + st.date[3]) * 24
                   + st.time[1]) * 60 + st.time[2]) * 60 + st.time[3]]
    ELSE [valid |-> FALSE, ms |-> 0]

\* Mutant of InitialResult: signatureIndex does not mirror the input.
InitialResultIndexZero(signature) ==
    [signatureIndex |-> 0,
     isValid        |-> FALSE,
     signerName     |-> "Unknown",
     signerOrg      |-> None,
     signerEmail    |-> None,
     issuer         |-> "Unknown",
     issuerOrg      |-> None,
     validFrom      |-> ZeroDate,
     validTo        |-> ZeroDate,
     isExpired      |-> FALSE,
     isSelfSigned   |-> FALSE,
     isTrusted      |-> FALSE,
     algorithms     |-> [digest |-> "Unknown", signature |-> "Unknown"],
     serialNumber   |-> "",
     signatureDate  |-> None,
     byteRange      |-> signature.byteRange,
     coverageStatus |-> "unknown",
     reason         |-> signature.reason,
     location       |-> signature.location,
     contactInfo    |-> signature.contactInfo,
     errorMessage   |-> None]

\* const result = { ... }: lines 116-133.
InitialResult(signature) ==
    [signatureIndex |-> signature.index,
     isValid        |-> FALSE,
     signerName     |-> "Unknown",
     signerOrg      |-> None,
     signerEmail    |-> None,
     issuer         |-> "Unknown",
     issuerOrg      |-> None,
     validFrom      |-> ZeroDate,
     validTo        |-> ZeroDate,
     isExpired      |-> FALSE,
     isSelfSigned   |-> FALSE,
     isTrusted      |-> FALSE,
     algorithms     |-> [digest |-> "Unknown", signature |-> "Unknown"],
     serialNumber   |-> "",
     signatureDate  |-> None,
     byteRange      |-> signature.byteRange,
     coverageStatus |-> "unknown",
     reason         |-> signature.reason,
     location       |-> signature.location,
     contactInfo    |-> signature.contactInfo,
     errorMessage   |-> None]

\* Mutant of CatchParseError: the error leaves validateSignature.
CatchParseErrorRethrows(result, e) == Throw(e)

\* catch (e) { result.errorMessage = ... } followed by return result.
CatchParseError(result, e) ==
    Return([result EXCEPT !.errorMessage =
               Some(IF e.isError THEN e.message ELSE "Failed to parse signature")])

\* Mutant of NoCertificates: the early return sets no message.
NoCertificatesSilent(result) == Return(result)

\* if (!p7.certificates || p7.certificates.length === 0) { ...; return result }
NoCertificates(result) ==
    Return([result EXCEPT !.errorMessage = Some("No certificates found in signature")])

\* Mutant of IsExpired: the endpoints of the validity period count as expired.
IsExpiredAtEndpoints(now, validFrom, validTo) == now >= validTo \/ now <= validFrom

\* now > result.validTo || now < result.validFrom
IsExpired(now, validFrom, validTo) == now > validTo \/ now < validFrom

\* Lines 151-168: the signer's fields, once every getField call has returned.
SignerFields(result, signerCert, now) ==
    [result EXCEPT
        !.signerName   = IF signerCert.subjectCN # None
                         THEN signerCert.subjectCN[1] ELSE "Unknown",
        !.signerOrg    = signerCert.subjectO,
        !.signerEmail  = IF signerCert.subjectE # None THEN signerCert.subjectE
                         ELSE signerCert.subjectEmailAddress,
        !.issuer       = IF signerCert.issuerCN # None
                         THEN signerCert.issuerCN[1] ELSE "Unknown",
        !.issuerOrg    = signerCert.issuerO,
        !.validFrom    = signerCert.notBefore,
        !.validTo      = signerCert.notAfter,
        !.serialNumber = signerCert.serialNumber,
        !.isExpired    = IsExpired(now, signerCert.notBefore, signerCert.notAfter)]

\* Lines 173-195: the trust check.  trusted is an option.
RECURSIVE ChainTrusted(_, _, _)
ChainTrusted(certificates, k, trusted) ==
    IF k > Len(certificates) THEN FALSE
    ELSE IF isIssuer(trusted, certificates[k])
            \/ certificates[k].serialNumber = trusted.serialNumber
         THEN TRUE
    ELSE ChainTrusted(certificates, k + 1, trusted)

\* Mutant of TrustCheck: only issuance counts, serial numbers are not compared.
TrustCheckIssuerOnly(signerCert, certificates, trusted, env) ==
    IF trusted = None THEN FALSE
    ELSE IF env.throwAt = "trust" THEN FALSE
    ELSE \/ isIssuer(trusted[1], signerCert)
         \/ \E k \in 1..Len(certificates) : isIssuer(trusted[1], certificates[k])

\* Mutant of TrustCheck: the catch clause of the trust check trusts.
TrustCheckTrueOnThrow(signerCert, certificates, trusted, env) ==
    IF trusted = None THEN FALSE
    ELSE IF env.throwAt = "trust" THEN TRUE
    ELSE \/ isIssuer(trusted[1], signerCert)
         \/ signerCert.serialNumber = trusted[1].serialNumber
         \/ ChainTrusted(certificates, 1, trusted[1])

TrustCheck(signerCert, certificates, trusted, env) ==
    IF trusted = None THEN FALSE
    ELSE IF env.throwAt = "trust" THEN FALSE
    ELSE LET isTrustedIssuer == isIssuer(trusted[1], signerCert)
             isSameCert      == signerCert.serialNumber = trusted[1].serialNumber
             chainTrusted    == ChainTrusted(certificates, 1, trusted[1])
         IN  isTrustedIssuer \/ isSameCert \/ chainTrusted

\* Lines 203-220: the signing time.
RECURSIVE FindSigningTime(_, _)
FindSigningTime(attrs, k) ==
    IF k > Len(attrs) THEN None
    ELSE IF attrs[k].type = OidSigningTime
         THEN Some([valid |-> TRUE, ms |-> attrs[k].value])
    ELSE FindSigningTime(attrs, k + 1)

\* Mutant of SignatureDate: the authenticated attribute is preferred to the
\* dictionary-level signing time.
SignatureDateAttributeFirst(signature, p7, env) ==
    LET fromAttributes ==
            IF env.throwAt = "attributes" THEN None
            ELSE IF p7.authenticatedAttributes = None THEN None
            ELSE FindSigningTime(p7.authenticatedAttributes[1], 1)
    IN  IF fromAttributes # None THEN fromAttributes
        ELSE IF signature.signingTime # None
        THEN Some(NewDateFromString(signature.signingTime[1]))
        ELSE None

SignatureDate(signature, p7, env) ==
    IF signature.signingTime # None
    THEN Some(NewDateFromString(signature.signingTime[1]))
    ELSE IF env.throwAt = "attributes" THEN None
    ELSE IF p7.authenticatedAttributes = None THEN None
    ELSE FindSigningTime(p7.authenticatedAttributes[1], 1)

\* Mutant of Coverage: totalCovered (len1 + len2) is compared, not expectedEnd.
CoverageTotalCovered(byteRange, pdfLength) ==
    IF Len(byteRange) = 4
    THEN LET totalCovered == byteRange[2] + byteRange[4]
         IN  IF totalCovered = pdfLength THEN "full"
             ELSE IF totalCovered < pdfLength THEN "partial"
             ELSE "unknown"
    ELSE "unknown"

\* Lines 222-233: byte range coverage.
Coverage(byteRange, pdfLength) ==
    IF Len(byteRange) = 4
    THEN LET expectedEnd == byteRange[3] + byteRange[4]
         IN  IF expectedEnd = pdfLength THEN "full"
             ELSE IF expectedEnd < pdfLength THEN "partial"
             ELSE "unknown"
    ELSE "unknown"

\* Mutant of MarkValid: an expired certificate is not marked valid.
MarkValidUnlessExpired(result) == [result EXCEPT !.isValid = ~result.isExpired]

\* result.isValid = true (line 236).
MarkValid(result) == [result EXCEPT !.isValid = TRUE]

validateSignature(signature, pdfLength, trusted, env) ==
    LET result == InitialResult(signature)
        p7     == Decode(signature.contents)
    IN  IF ~p7.ok THEN CatchParseError(result, p7.error[1])
        ELSE IF Len(p7.certificates) = 0 THEN NoCertificates(result)
        ELSE IF env.throwAt = "fields" THEN CatchParseError(result, env.thrown)
        ELSE
          LET signerCert == p7.certificates[1]
              r1 == SignerFields(result, signerCert, env.now)
          IN  IF env.throwAt = "selfSigned" THEN CatchParseError(r1, env.thrown)
              ELSE Return(MarkValid(
                [r1 EXCEPT
                   !.isSelfSigned   = isIssuer(signerCert, signerCert),
                   !.isTrusted      = TrustCheck(signerCert, p7.certificates,
                                                 trusted, env),
                   !.algorithms     =
                       [digest    |-> getDigestAlgorithmName(signerCert.siginfoOid),
                        signature |-> getSignatureAlgorithmName(
                                          signerCert.signatureOid)],
                   !.signatureDate  = SignatureDate(signature, p7, env),
                   !.coverageStatus = Coverage(signature.byteRange, pdfLength)]))

(***************************************************************************)
(* The collaborators before anything has happened to them: the relay       *)
(* without a request, the preload scheduler as its module is loaded.       *)
(***************************************************************************)
RelayAtRest ==
    /\ request = None
    /\ upstream = <<>>
    /\ relayPc = "idle"
    /\ settled = None
    /\ response = None

\* The editor page as initializePage leaves it.
EditorAtRest ==
    /\ currentPdfUrl = None
    /\ objectUrls = <<>>
    /\ loads = <<>>
    /\ viewerInits = <<>>
    /\ removeBtn = FALSE
    /\ backBtn = "initial"
    /\ pageOpen = TRUE

Modules == {"libreoffice", "pymupdf", "ghostscript"}

PreloadAtRest ==
    /\ preloadState = [m \in Modules |-> "idle"]
    /\ pymupdfInstance = "null"
    /\ isLibreOfficePage = FALSE
    /\ tasks = <<>>
    /\ loaderCalls = [m \in Modules |-> 0]

(***************************************************************************)
(* Inputs.                                                                 *)
(***************************************************************************)
ThrowPoints == {"none", "fields", "selfSigned", "trust", "attributes"}

ThrownValues ==
    { [isError |-> TRUE,  message |-> "Cannot read properties of undefined"],
      [isError |-> FALSE, message |-> ""] }        \* a thrown non-Error value

Clock == {5, 10, 15, 20, 25}

Envs == [now : Clock, throwAt : ThrowPoints, thrown : ThrownValues]

\* What the rows of one batch call meet.
BatchEnvs ==
    [now : {15}, throwAt : {"none", "selfSigned"},
     thrown : {[isError |-> TRUE, message |-> "Cannot read properties of undefined"]}]

TrustedChoices ==
    {None, Some(CertInter), Some(CertRoot), Some(CertSameSerial), Some(CertStranger)}

BatchTrustedChoices == {None, Some(CertInter)}

SigningTimes ==
    {None,
     Some([date |-> <<2024, 1, 15>>, time |-> <<10, 30, 0>>]),
     Some([date |-> <<2024, 13, 45>>, time |-> <<10, 30, 0>>])}

SignatureInputs ==
    [index       : 0..MaxIndex,
     contents    : PayloadBytes,
     byteRange   : {<<0, 100, 200, 50>>, <<0, 100, 250, 50>>},
     reason      : {None},
     location    : {None},
     contactInfo : {None},
     name        : {None},
     signingTime : SigningTimes]

PdfLengths == {249, 250, 300}

EmptyPdf == BuildPdf(<<>>, 20)

(***************************************************************************)
(* The batch API: countSignatures (the cheap presence check) and then      *)
(* validatePdfSignatures on the same document, each running                *)
(* extractSignatures from the start.                                       *)
(***************************************************************************)
Init ==
    /\ RelayAtRest
    /\ EditorAtRest
    /\ PreloadAtRest
    /\ \E spec \in DocSpecs, spacing \in Spacings : pdf = BuildPdf(spec, spacing)
    /\ trustedCert = None
    /\ op = "none"
    /\ pc = "idle"
    /\ lastIndex = 0
    /\ sigIndex = 0
    /\ signatures = <<>>
    /\ warnings = <<>>
    /\ origins = <<>>
    /\ results = <<>>
    /\ count = None
    /\ batch = None
    /\ vcall = None
    /\ vret = None

\* Entry of extractSignatures: fresh locals, a fresh sigRegex.
EnterExtract ==
    /\ pc' = "scan"
    /\ lastIndex' = 0
    /\ sigIndex' = 0
    /\ signatures' = <<>>
    /\ origins' = <<>>
    /\ results' = <<>>

CallCountSignatures ==
    /\ pc = "idle"
    /\ count = None
    /\ op' = "countSignatures"
    /\ EnterExtract
    /\ UNCHANGED <<relayVars, preloadVars, editorVars>>
    /\ UNCHANGED <<pdf, trustedCert, warnings, count, batch, vcall, vret>>

CallValidatePdfSignatures ==
    /\ pc = "idle"
    /\ count # None
    /\ batch = None
    /\ op' = "validatePdfSignatures"
    /\ trustedCert' \in BatchTrustedChoices
    /\ EnterExtract
    /\ UNCHANGED <<relayVars, preloadVars, editorVars>>
    /\ UNCHANGED <<pdf, warnings, count, batch, vcall, vret>>

\* One iteration of while ((sigMatch = sigRegex.exec(pdfString)) !== null).
ScanStep ==
    /\ pc = "scan"
    /\ MarkersFrom(pdf, lastIndex) # {}
    /\ LET m == NextMarker(pdf, lastIndex)
           r == ProcessMarker(pdf, m, sigIndex)
       IN  /\ lastIndex' = pdf.tokens[m].pos + pdf.tokens[m].len
           /\ sigIndex' = r.sigIndex
           /\ signatures' = IF r.outcome = "pushed"
                            THEN Append(signatures, r.pushed[1]) ELSE signatures
           /\ origins' = IF r.outcome = "pushed"
                         THEN Append(origins, [marker |-> pdf.tokens[m].dict,
                                               byteRange |-> r.from[1].byteRange,
                                               contents |-> r.from[1].contents])
                         ELSE origins
           /\ warnings' = IF r.outcome = "caught"
                          THEN Append(warnings, [sigIndex |-> r.sigIndex,
                                                 marker |-> pdf.tokens[m].dict])
                          ELSE warnings
           /\ pc' = IF r.outcome = "thrown" THEN "failed" ELSE pc
    /\ UNCHANGED <<relayVars, preloadVars, editorVars>>
    /\ UNCHANGED <<pdf, trustedCert, op, results, count, batch, vcall, vret>>

\* sigRegex.exec returns null: extractSignatures returns signatures.
\* countSignatures returns its length; validatePdfSignatures goes on to map.
ScanEnd ==
    /\ pc = "scan"
    /\ MarkersFrom(pdf, lastIndex) = {}
    /\ IF op = "countSignatures"
       THEN /\ count' = Some(Len(signatures))
            /\ pc' = "idle"
       ELSE /\ count' = count
            /\ pc' = "map"
    /\ UNCHANGED <<relayVars, preloadVars, editorVars>>
    /\ UNCHANGED <<pdf, trustedCert, op, lastIndex, sigIndex, signatures,
                   warnings, origins, results, batch, vcall, vret>>

\* One callback of signatures.map(sig => validateSignature(sig, pdfBytes, trustedCert)).
MapStep ==
    /\ pc = "map"
    /\ Len(results) < Len(signatures)
    /\ \E env \in BatchEnvs :
         LET c == validateSignature(signatures[Len(results) + 1], pdf.length,
                                    trustedCert, env)
         IN  IF c.type = "return"
             THEN /\ results' = Append(results, c.value)
                  /\ pc' = pc
             ELSE /\ results' = results
                  /\ pc' = "rejected"
    /\ UNCHANGED <<relayVars, preloadVars, editorVars>>
    /\ UNCHANGED <<pdf, trustedCert, op, lastIndex, sigIndex, signatures,
                   warnings, origins, count, batch, vcall, vret>>

MapEnd ==
    /\ pc = "map"
    /\ Len(results) = Len(signatures)
    /\ batch' = Some(results)
    /\ pc' = "idle"
    /\ UNCHANGED <<relayVars, preloadVars, editorVars>>
    /\ UNCHANGED <<pdf, trustedCert, op, lastIndex, sigIndex, signatures,
                   warnings, origins, results, count, vcall, vret>>

Next ==
    \/ CallCountSignatures
    \/ CallValidatePdfSignatures
    \/ ScanStep
    \/ ScanEnd
    \/ MapStep
    \/ MapEnd

Spec == Init /\ [][Next]_vars

(***************************************************************************)
(* validateSignature called on its own (it is exported).                   *)
(***************************************************************************)
InitValidate ==
    /\ RelayAtRest
    /\ EditorAtRest
    /\ PreloadAtRest
    /\ pdf = EmptyPdf
    /\ trustedCert = None
    /\ op = "none"
    /\ pc = "idle"
    /\ lastIndex = 0
    /\ sigIndex = 0
    /\ signatures = <<>>
    /\ warnings = <<>>
    /\ origins = <<>>
    /\ results = <<>>
    /\ count = None
    /\ batch = None
    /\ vcall = None
    /\ vret = None

CallValidateSignature ==
    /\ vcall = None
    /\ \E signature \in SignatureInputs, pdfLength \in PdfLengths,
          trusted \in TrustedChoices, env \in Envs :
         /\ vcall' = Some([signature |-> signature, pdfLength |-> pdfLength,
                           trusted |-> trusted, env |-> env])
         /\ vret' = Some(validateSignature(signature, pdfLength, trusted, env))
    /\ op' = "validateSignature"
    /\ UNCHANGED <<relayVars, preloadVars, editorVars>>
    /\ UNCHANGED <<pdf, trustedCert, pc, lastIndex, sigIndex, signatures,
                   warnings, origins, results, count, batch>>

NextValidate == CallValidateSignature

SpecValidate == InitValidate /\ [][NextValidate]_vars

(***************************************************************************)
(* hexToBytes on its own, over the hex strings the /Contents pattern can   *)
(* capture (one digit at least).                                           *)
(***************************************************************************)
HexDigits == {0, 1, 15}

HexStrings == UNION { [1..n -> HexDigits] : n \in 1..MaxHexLen }

InitHex ==
    /\ RelayAtRest
    /\ EditorAtRest
    /\ PreloadAtRest
    /\ pdf = EmptyPdf
    /\ trustedCert = None
    /\ op = "none"
    /\ pc = "idle"
    /\ lastIndex = 0
    /\ sigIndex = 0
    /\ signatures = <<>>
    /\ warnings = <<>>
    /\ origins = <<>>
    /\ results = <<>>
    /\ count = None
    /\ batch = None
    /\ \E hex \in HexStrings : vcall = Some([hex |-> hex])
    /\ vret = None

CallHexToBytes ==
    /\ vret = None
    /\ vret' = Some(Return(hexToBytes(vcall[1].hex)))
    /\ op' = "hexToBytes"
    /\ UNCHANGED <<relayVars, preloadVars, editorVars>>
    /\ UNCHANGED <<pdf, trustedCert, pc, lastIndex, sigIndex, signatures,
                   warnings, origins, results, count, batch, vcall>>

NextHex == CallHexToBytes

SpecHex == InitHex /\ [][NextHex]_vars

(***************************************************************************)
(* The algorithm names on their own (lines 198-201), over every identifier *)
(* of the two tables, one outside them, the empty one and an absent one.   *)
(***************************************************************************)
AlgorithmOids ==
    DOMAIN DigestAlgorithms \cup DOMAIN SignatureAlgorithms \cup {OidUnlisted, ""}

OidInputs == {None} \cup {Some(oid) : oid \in AlgorithmOids}

\* x || ''
OrEmpty(x) == IF x = None THEN "" ELSE x[1]

InitAlgorithms ==
    /\ RelayAtRest
    /\ EditorAtRest
    /\ PreloadAtRest
    /\ pdf = EmptyPdf
    /\ trustedCert = None
    /\ op = "none"
    /\ pc = "idle"
    /\ lastIndex = 0
    /\ sigIndex = 0
    /\ signatures = <<>>
    /\ warnings = <<>>
    /\ origins = <<>>
    /\ results = <<>>
    /\ count = None
    /\ batch = None
    /\ \E algorithmOid \in OidInputs, signatureOid \in OidInputs :
          vcall = Some([algorithmOid |-> algorithmOid, signatureOid |-> signatureOid])
    /\ vret = None

ResolveAlgorithms ==
    /\ vret = None
    /\ vret' = Some(Return(
           [digest    |-> getDigestAlgorithmName(OrEmpty(vcall[1].algorithmOid)),
            signature |-> getSignatureAlgorithmName(OrEmpty(vcall[1].signatureOid))]))
    /\ op' = "algorithms"
    /\ UNCHANGED <<relayVars, preloadVars, editorVars>>
    /\ UNCHANGED <<pdf, trustedCert, pc, lastIndex, sigIndex, signatures,
                   warnings, origins, results, count, batch, vcall>>

NextAlgorithms == ResolveAlgorithms

SpecAlgorithms == InitAlgorithms /\ [][NextAlgorithms]_vars

\* The signature engine with no call made.
EngineAtRest ==
    /\ pdf = EmptyPdf
    /\ trustedCert = None
    /\ op = "none"
    /\ pc = "idle"
    /\ lastIndex = 0
    /\ sigIndex = 0
    /\ signatures = <<>>
    /\ warnings = <<>>
    /\ origins = <<>>
    /\ results = <<>>
    /\ count = None
    /\ batch = None
    /\ vcall = None
    /\ vret = None

(***************************************************************************)
(* Certificate relay (cors-proxy-worker.js).                               *)
(*                                                                         *)
(* A string is a sequence of pieces, cut so that every literal the code    *)
(* looks for (an allowed origin, a blocked domain, an address prefix, a    *)
(* certificate pattern) is a piece of its own wherever it occurs: prefix,  *)
(* inclusion and suffix tests on the string are the same tests on the      *)
(* pieces.  A URL string is written <<scheme, "//">> \o host \o rest.       *)
(***************************************************************************)
StartsWith(str, prefix) ==
    Len(prefix) <= Len(str) /\ SubSeq(str, 1, Len(prefix)) = prefix

Includes(str, piece) == \E k \in 1..Len(str) : str[k] = piece

\* The /i flag: the pieces that differ from their lower-case form.
Lower(piece) ==
    CASE piece = ".CRT"      -> ".crt"
      [] piece = "caIssuers" -> "caissuers"
      [] OTHER               -> piece

ALLOWED_PATTERNS ==
    [atEnd    |-> {".crt", ".cer", ".pem"},
     anywhere |-> {"/certs/", "/ocsp", "/crl", "caissuers"}]

ALLOWED_ORIGINS == { <<"https://www.Wrapdf.com">>, <<"https://Wrapdf.com">> }

BLOCKED_DOMAINS == {"localhost", "127.0.0.1", "0.0.0.0"}

isAllowedOrigin(origin) ==
    IF origin = None \/ origin = Some(<<>>) THEN FALSE
    ELSE \E allowed \in ALLOWED_ORIGINS : StartsWith(origin[1], allowed)

Schemes == {"https:", "http:", "ftp:"}

HostPieces ==
    {"ca.example.com", "localhost", "127.0.0.1", "127.0.0.2", "0.0.0.0", "[::1]",
     "10.", "172.", "192.168.", "16", "32", ".0.5", "0.0.5", "1.5"}

\* The host pieces that begin with a dot.
DotLedPieces == {".0.5"}

RECURSIVE HostEnd(_, _)
HostEnd(str, k) ==
    IF k <= Len(str) /\ str[k] \in HostPieces THEN HostEnd(str, k + 1) ELSE k - 1

\* new URL(urlString): throws, or gives the protocol and the hostname.
NewURL(str) ==
    IF Len(str) >= 3 /\ str[1] \in Schemes /\ str[2] = "//" /\ HostEnd(str, 3) >= 3
    THEN [ok |-> TRUE, protocol |-> str[1], hostname |-> SubSeq(str, 3, HostEnd(str, 3))]
    ELSE [ok |-> FALSE, protocol |-> "", hostname |-> <<>>]

\* /^10\./, /^172\.(1[6-9]|2[0-9]|3[0-1])\./ and /^192\.168\./ on the hostname.
PrivateAddressPattern(hostname) ==
    \/ hostname[1] = "10."
    \/ /\ hostname[1] = "172."
       /\ Len(hostname) >= 3
       /\ hostname[2] \in {"16", "17", "18", "19", "20", "21", "22", "23", "24",
                            "25", "26", "27", "28", "29", "30", "31"}
       /\ hostname[3] \in DotLedPieces
    \/ hostname[1] = "192.168."

\* ALLOWED_PATTERNS.some(pattern => pattern.test(urlString))
MatchesAllowedPattern(str) ==
    \/ str # <<>> /\ Lower(str[Len(str)]) \in ALLOWED_PATTERNS.atEnd
    \/ \E k \in 1..Len(str) : Lower(str[k]) \in ALLOWED_PATTERNS.anywhere

isValidCertificateUrl(urlString) ==
    LET url == NewURL(urlString)
    IN  IF ~url.ok THEN FALSE                                \* catch
        ELSE IF url.protocol \notin {"http:", "https:"} THEN FALSE
        ELSE IF \E domain \in BLOCKED_DOMAINS : Includes(url.hostname, domain)
             THEN FALSE
        ELSE IF PrivateAddressPattern(url.hostname) THEN FALSE
        ELSE MatchesAllowedPattern(urlString)

corsHeaders(origin) == IF origin # None /\ origin # Some(<<>>) THEN origin[1] ELSE <<"*">>

\* new Response(JSON.stringify(body), {status, headers}) of the error paths;
\* cors is the Access-Control-Allow-Origin header (option).
JsonResponse(status, error, cors) ==
    [status |-> status, contentType |-> Some("application/json"),
     cors |-> cors, body |-> [kind |-> "json", error |-> error]]

\* Lines 86-136: what the handler does before it fetches.  It answers, or
\* goes on to fetch(targetUrl).
BeforeFetch(req) ==
    IF req.method = "OPTIONS"
    THEN [answer |-> Some([status |-> 204, contentType |-> None,
                           cors |-> Some(corsHeaders(req.origin)),
                           body |-> [kind |-> "null"]])]
    ELSE IF ~isAllowedOrigin(req.origin)
    THEN [answer |-> Some(JsonResponse(403, "Forbidden", None))]
    ELSE IF req.method # "GET"
    THEN [answer |-> Some([status |-> 405, contentType |-> None,
                           cors |-> Some(corsHeaders(req.origin)),
                           body |-> [kind |-> "text", text |-> "Method not allowed"]])]
    ELSE IF req.url = None \/ req.url = Some(<<>>)
    THEN [answer |-> Some(JsonResponse(400, "Missing url parameter",
                                       Some(corsHeaders(req.origin))))]
    ELSE IF ~isValidCertificateUrl(req.url[1])
    THEN [answer |-> Some(JsonResponse(403, "Invalid or disallowed URL",
                                       Some(corsHeaders(req.origin))))]
    ELSE [answer |-> None]

\* Lines 145-181: the handler after fetch settled.
AfterFetch(req, outcome) ==
    IF outcome.kind = "fetchThrows" \/ outcome.kind = "bodyThrows"
    THEN JsonResponse(500, "Proxy error", Some(corsHeaders(req.origin)))
    ELSE IF ~(outcome.status \in 200..299)
    THEN JsonResponse(outcome.status, "Failed to fetch certificate",
                      Some(corsHeaders(req.origin)))
    ELSE [status |-> 200,
          contentType |-> IF outcome.contentType # None THEN outcome.contentType
                          ELSE Some("application/x-x509-ca-cert"),
          cors |-> Some(corsHeaders(req.origin)),
          body |-> [kind |-> "bytes", data |-> outcome.bytes]]

\* Requests.
Origins ==
    { None,
      Some(<<"https://www.Wrapdf.com">>),
      Some(<<"https://Wrapdf.com">>),
      Some(<<"https://Wrapdf.com", ".attacker.example">>),
      Some(<<"https://wrapdf.com">>),
      Some(<<"https://attacker.example">>) }

\* Hosts, with what they are.
Hosts ==
    { [name |-> <<"ca.example.com">>,       is |-> "public"],
      [name |-> <<"172.", "32", ".0.5">>,   is |-> "public"],
      [name |-> <<"localhost">>,            is |-> "loopback"],
      [name |-> <<"127.0.0.1">>,            is |-> "loopback"],
      [name |-> <<"127.0.0.2">>,            is |-> "loopback"],
      [name |-> <<"[::1]">>,                is |-> "loopback"],
      [name |-> <<"0.0.0.0">>,              is |-> "loopback"],
      [name |-> <<"10.", "0.0.5">>,         is |-> "private"],
      [name |-> <<"172.", "16", ".0.5">>,   is |-> "private"],
      [name |-> <<"192.168.", "1.5">>,      is |-> "private"] }

Rests ==
    { <<"/root", ".crt">>, <<"/root", ".CRT">>, <<"/ocsp">>, <<"/index.html">>,
      <<"/root", ".crt", "?v=1">> }

UrlStrings ==
    { <<scheme, "//">> \o host.name \o rest :
         scheme \in Schemes, host \in Hosts, rest \in Rests }
    \cup { <<>>, <<"ca.example.com", "/root", ".crt">> }

Requests ==
    [method : {"GET", "POST", "OPTIONS"},
     origin : Origins,
     url    : {None} \cup {Some(u) : u \in UrlStrings}]

\* What fetch(targetUrl) and response.arrayBuffer() come to.
UpstreamOutcomes ==
    [kind : {"response"}, status : {200, 206, 404, 503},
     contentType : {None, Some("application/pkix-cert")}, bytes : {<<48, 130>>}]
    \cup
    [kind : {"fetchThrows", "bodyThrows"}, status : {0},
     contentType : {None}, bytes : {<<>>}]

InitRelay ==
    /\ EngineAtRest
    /\ RelayAtRest
    /\ EditorAtRest
    /\ PreloadAtRest

\* A request arrives; the handler runs to its return or to await fetch(...).
RelayRequest ==
    /\ relayPc = "idle"
    /\ \E req \in Requests :
         /\ request' = Some(req)
         /\ IF BeforeFetch(req).answer # None
            THEN /\ response' = BeforeFetch(req).answer
                 /\ upstream' = upstream
                 /\ relayPc' = "done"
            ELSE /\ response' = response
                 /\ upstream' = Append(upstream, req.url[1])
                 /\ relayPc' = "awaitFetch"
    /\ settled' = settled
    /\ UNCHANGED <<engineVars, preloadVars, editorVars>>

\* The upstream fetch settles; the handler runs to its return.
UpstreamSettles ==
    /\ relayPc = "awaitFetch"
    /\ \E outcome \in UpstreamOutcomes :
         /\ settled' = Some(outcome)
         /\ response' = Some(AfterFetch(request[1], outcome))
    /\ relayPc' = "done"
    /\ UNCHANGED <<request, upstream>>
    /\ UNCHANGED <<engineVars, preloadVars, editorVars>>

NextRelay ==
    \/ RelayRequest
    \/ UpstreamSettles

SpecRelay == InitRelay /\ [][NextRelay]_vars

(***************************************************************************)
(* Background preload scheduler of one page.                               *)
(*                                                                         *)
(* An idle task runs `await preloadPyMuPDF(); await preloadGhostscript()`. *)
(* It runs without interruption from one await of a loader to the next:    *)
(* the continuations in between are microtasks, idle callbacks and loader  *)
(* completions are tasks.  tasks[t] is where idle task t stands:           *)
(* "scheduled", "awaitPyMuPDF" (line 254), "awaitGhostscript" (line 271),  *)
(* "pyMuPDFThrows" and "ghostscriptThrows" (inside the try block of a      *)
(* preload whose loader threw instead of returning a promise, on the way   *)
(* to its catch), or "done".                                               *)
(***************************************************************************)
InitPreload ==
    /\ EngineAtRest
    /\ RelayAtRest
    /\ EditorAtRest
    /\ preloadState = [m \in Modules |-> "idle"]
    /\ pymupdfInstance = "null"
    /\ isLibreOfficePage \in BOOLEAN
    /\ tasks = <<>>
    /\ loaderCalls = [m \in Modules |-> 0]

\* A task is in the middle of a run: nothing else runs until it awaits or
\* returns.
Running == \E t \in 1..Len(tasks) : tasks[t] \in {"pyMuPDFThrows", "ghostscriptThrows"}

\* startBackgroundPreload(): returns at once on a LibreOffice page, else
\* hands one task to scheduleIdleTask.
StartBackgroundPreload ==
    /\ ~Running
    /\ Len(tasks) < MaxCalls
    /\ tasks' = IF isLibreOfficePage THEN tasks ELSE Append(tasks, "scheduled")
    /\ UNCHANGED <<preloadState, pymupdfInstance, isLibreOfficePage, loaderCalls>>
    /\ UNCHANGED <<engineVars, relayVars, editorVars>>

\* preloadGhostscript() called by task t once its preloadPyMuPDF() has
\* returned, the statuses being ps: up to the await of loadGsWASM, to a
\* throw inside the try block, or to its return when the status is not IDLE.
ThenPreloadGhostscript(t, ps) ==
    IF ps.ghostscript # "idle"
    THEN /\ preloadState' = ps
         /\ tasks' = [tasks EXCEPT ![t] = "done"]
         /\ loaderCalls' = loaderCalls
    ELSE /\ preloadState' = [ps EXCEPT !.ghostscript = "loading"]
         /\ \/ /\ tasks' = [tasks EXCEPT ![t] = "awaitGhostscript"]
               /\ loaderCalls' = [loaderCalls EXCEPT !.ghostscript = @ + 1]
            \/ \* getWasmBaseUrl throws
               /\ tasks' = [tasks EXCEPT ![t] = "ghostscriptThrows"]
               /\ loaderCalls' = loaderCalls
            \/ \* loadGsWASM throws
               /\ tasks' = [tasks EXCEPT ![t] = "ghostscriptThrows"]
               /\ loaderCalls' = [loaderCalls EXCEPT !.ghostscript = @ + 1]

\* The idle callback of task t fires: preloadPyMuPDF() up to its await or to
\* a throw inside its try block, or, when it returns at once, on into
\* preloadGhostscript().
RunIdleTask(t) ==
    /\ ~Running
    /\ tasks[t] = "scheduled"
    /\ IF preloadState.pymupdf # "idle"
       THEN /\ ThenPreloadGhostscript(t, preloadState)
            /\ pymupdfInstance' = pymupdfInstance
       ELSE /\ preloadState' = [preloadState EXCEPT !.pymupdf = "loading"]
            /\ \/ /\ pymupdfInstance' = "instance"
                  /\ loaderCalls' = [loaderCalls EXCEPT !.pymupdf = @ + 1]
                  /\ tasks' = [tasks EXCEPT ![t] = "awaitPyMuPDF"]
               \/ \* getWasmBaseUrl or new PyMuPDF throws
                  /\ pymupdfInstance' = pymupdfInstance
                  /\ loaderCalls' = loaderCalls
                  /\ tasks' = [tasks EXCEPT ![t] = "pyMuPDFThrows"]
               \/ \* pymupdfInstance.load() throws
                  /\ pymupdfInstance' = "instance"
                  /\ loaderCalls' = [loaderCalls EXCEPT !.pymupdf = @ + 1]
                  /\ tasks' = [tasks EXCEPT ![t] = "pyMuPDFThrows"]
    /\ UNCHANGED isLibreOfficePage
    /\ UNCHANGED <<engineVars, relayVars, editorVars>>

\* The catch of preloadPyMuPDF (lines 257-260) after a throw in its try
\* block; task t goes on into preloadGhostscript().
PyMuPDFThrows(t) ==
    /\ tasks[t] = "pyMuPDFThrows"
    /\ ThenPreloadGhostscript(t, [preloadState EXCEPT !.pymupdf = "error"])
    /\ UNCHANGED <<pymupdfInstance, isLibreOfficePage>>
    /\ UNCHANGED <<engineVars, relayVars, editorVars>>

\* The catch of preloadGhostscript (lines 284-287) after a throw in its try
\* block.
GhostscriptThrows(t) ==
    /\ tasks[t] = "ghostscriptThrows"
    /\ preloadState' = [preloadState EXCEPT !.ghostscript = "error"]
    /\ tasks' = [tasks EXCEPT ![t] = "done"]
    /\ UNCHANGED <<pymupdfInstance, isLibreOfficePage, loaderCalls>>
    /\ UNCHANGED <<engineVars, relayVars, editorVars>>

\* Mutant of PyMuPDFLoadSettles: a failed load puts the status back to IDLE,
\* for a later task to try again.
PyMuPDFLoadSettlesRetry(t) ==
    /\ ~Running
    /\ tasks[t] = "awaitPyMuPDF"
    /\ \E status \in {"ready", "idle"} :
          ThenPreloadGhostscript(t, [preloadState EXCEPT !.pymupdf = status])
    /\ UNCHANGED <<pymupdfInstance, isLibreOfficePage>>
    /\ UNCHANGED <<engineVars, relayVars, editorVars>>

\* pymupdfInstance.load() settles for task t, which goes on into
\* preloadGhostscript().
PyMuPDFLoadSettles(t) ==
    /\ ~Running
    /\ tasks[t] = "awaitPyMuPDF"
    /\ \E status \in {"ready", "error"} :
          ThenPreloadGhostscript(t, [preloadState EXCEPT !.pymupdf = status])
    /\ UNCHANGED <<pymupdfInstance, isLibreOfficePage>>
    /\ UNCHANGED <<engineVars, relayVars, editorVars>>

\* loadGsWASM(...) settles for task t (setCachedGsModule may throw).
GhostscriptLoadSettles(t) ==
    /\ ~Running
    /\ tasks[t] = "awaitGhostscript"
    /\ \E status \in {"ready", "error"} :
          preloadState' = [preloadState EXCEPT !.ghostscript = status]
    /\ tasks' = [tasks EXCEPT ![t] = "done"]
    /\ UNCHANGED <<pymupdfInstance, isLibreOfficePage, loaderCalls>>
    /\ UNCHANGED <<engineVars, relayVars, editorVars>>

NextPreload ==
    \/ StartBackgroundPreload
    \/ \E t \in 1..Len(tasks) : RunIdleTask(t)
    \/ \E t \in 1..Len(tasks) : PyMuPDFThrows(t)
    \/ \E t \in 1..Len(tasks) : GhostscriptThrows(t)
    \/ \E t \in 1..Len(tasks) : PyMuPDFLoadSettles(t)
    \/ \E t \in 1..Len(tasks) : GhostscriptLoadSettles(t)

SpecPreload == InitPreload /\ [][NextPreload]_vars

\* export function getPymupdfInstance()
getPymupdfInstance == pymupdfInstance

(***************************************************************************)
(* PDF editor page.                                                        *)
(*                                                                         *)
(* handleFiles runs without interruption up to `await import(...)` (line   *)
(* 129); the page handles other events until the import settles, and the   *)
(* rest of handleFiles runs then.  An object URL is its index in           *)
(* objectUrls.                                                             *)
(***************************************************************************)
InitEditor ==
    /\ EngineAtRest
    /\ RelayAtRest
    /\ PreloadAtRest
    /\ EditorAtRest

\* URL.revokeObjectURL(currentPdfUrl) under `if (currentPdfUrl)`.
RevokeCurrent(urls) ==
    IF currentPdfUrl # None THEN [urls EXCEPT ![currentPdfUrl[1]] = "revoked"] ELSE urls

FileTypes == {"application/pdf", "image/png"}

\* handleFiles(files), from the change or the drop listener, up to line 129.
HandleFiles ==
    /\ pageOpen
    /\ Len(loads) < MaxUploads
    /\ \E type \in FileTypes :
         IF type # "application/pdf"
         THEN UNCHANGED editorVars
         ELSE LET fileURL == Len(objectUrls) + 1
              IN  /\ removeBtn' = TRUE
                  /\ objectUrls' = Append(RevokeCurrent(objectUrls), "live")
                  /\ currentPdfUrl' = Some(fileURL)
                  /\ loads' = Append(loads, [fileURL |-> fileURL, pc |-> "awaitImport"])
                  /\ UNCHANGED <<viewerInits, backBtn, pageOpen>>
    /\ UNCHANGED <<engineVars, relayVars, preloadVars>>

\* import('embedpdf-snippet') settles for load k: EmbedPDF.init and the new
\* back button, or the catch clause when the import failed or init threw.
ImportSettles(k) ==
    /\ pageOpen
    /\ loads[k].pc = "awaitImport"
    /\ loads' = [loads EXCEPT ![k].pc = "done"]
    /\ \/ /\ viewerInits' =
                 Append(viewerInits,
                        [src     |-> loads[k].fileURL,
                         status  |-> objectUrls[loads[k].fileURL],
                         current |-> currentPdfUrl])
          /\ backBtn' \in {"resetting", backBtn}     \* init returned, or threw
       \/ UNCHANGED <<viewerInits, backBtn>>         \* the import failed
    /\ UNCHANGED <<currentPdfUrl, objectUrls, removeBtn, pageOpen>>
    /\ UNCHANGED <<engineVars, relayVars, preloadVars>>

\* removeBtn.onclick (lines 104-114).
RemoveBtnClick ==
    /\ pageOpen
    /\ removeBtn
    /\ objectUrls' = RevokeCurrent(objectUrls)
    /\ currentPdfUrl' = None
    /\ removeBtn' = FALSE
    /\ UNCHANGED <<loads, viewerInits, backBtn, pageOpen>>
    /\ UNCHANGED <<engineVars, relayVars, preloadVars>>

\* Click on #back-to-tools: the listener of initializePage (lines 53-55) or
\* the one handleFiles put on the replaced button (lines 145-151).
BackBtnClick ==
    /\ pageOpen
    /\ IF backBtn = "resetting"
       THEN /\ objectUrls' = RevokeCurrent(objectUrls)
            /\ currentPdfUrl' = None
       ELSE UNCHANGED <<objectUrls, currentPdfUrl>>
    /\ pageOpen' = FALSE
    /\ UNCHANGED <<loads, viewerInits, removeBtn, backBtn>>
    /\ UNCHANGED <<engineVars, relayVars, preloadVars>>

NextEditor ==
    \/ HandleFiles
    \/ \E k \in 1..Len(loads) : ImportSettles(k)
    \/ RemoveBtnClick
    \/ BackBtnClick

SpecEditor == InitEditor /\ [][NextEditor]_vars

(***************************************************************************)
(* Vocabulary of the properties.                                           *)
(***************************************************************************)
\* extractSignatures has returned; `signatures` is the value it returned.
ExtractReturned == op # "none" /\ pc \in {"idle", "map"}

Dicts(doc) == { doc.tokens[k].dict : k \in 1..Len(doc.tokens) }

DictHas(doc, d, kind) ==
    \E k \in 1..Len(doc.tokens) :
        doc.tokens[k].dict = d /\ doc.tokens[k].kind = kind

\* A dictionary with both its byte-range and its payload.
WellFormedDict(doc, d) == DictHas(doc, d, "ByteRange") /\ DictHas(doc, d, "Contents")

WellFormedDicts(doc) == { d \in Dicts(doc) : WellFormedDict(doc, d) }

\* Every text field of the document is valid UTF-8.
TextsDecode(doc) ==
    \A k \in 1..Len(doc.tokens) :
        doc.tokens[k].kind \in TextKinds => decodeText(doc.tokens[k].val).ok

IndexedFromZero(records) ==
    \A i \in 1..Len(records) : records[i].index = i - 1

(***************************************************************************)
(* C1.  For a document with K well-formed signature dictionaries,          *)
(* extractSignatures returns exactly K records with index values 0..K-1 in *)
(* discovery order, and countSignatures returns K.                         *)
(***************************************************************************)
C1_KRecordsIndexedFromZero ==
    LET K == Cardinality(WellFormedDicts(pdf))
    IN  /\ ExtractReturned =>
              /\ Len(signatures) = K
              /\ IndexedFromZero(signatures)
        /\ count # None => count[1] = K

(***************************************************************************)
(* C2.  Two signature dictionaries, the first without a byte-range, the    *)
(* second well-formed (and every text field readable): extractSignatures   *)
(* returns exactly one record, with index 0, wherever the two sit.         *)
(***************************************************************************)
C2_MalformedFirstSkipped ==
    ( /\ ExtractReturned
      /\ Dicts(pdf) = {1, 2}
      /\ ~DictHas(pdf, 1, "ByteRange")
      /\ WellFormedDict(pdf, 2)
      /\ TextsDecode(pdf) )
    => /\ Len(signatures) = 1
       /\ signatures[1].index = 0

(***************************************************************************)
(* C7.  validatePdfSignatures returns one row per extracted record, in     *)
(* discovery order, the i-th row (counting from 0) with signatureIndex i,  *)
(* and as many rows as countSignatures reports for the same bytes.         *)
(***************************************************************************)
C7_OneRowPerSignatureIndexed ==
    batch # None =>
        /\ Len(batch[1]) = Len(signatures)
        /\ \A i \in 1..Len(batch[1]) : batch[1][i].signatureIndex = i - 1
        /\ Len(batch[1]) = count[1]

(***************************************************************************)
(* C8.  extractSignatures never fails: an error raised while one marker is *)
(* processed is caught, that signature alone is dropped, and every later   *)
(* marker is still processed and its record returned.                      *)
(***************************************************************************)
Markers(doc) == MarkersFrom(doc, 0)

C8_ScanNeverFails ==
    /\ pc # "failed"
    /\ ExtractReturned =>
         \A m \in Markers(pdf) :
            ProcessMarker(pdf, m, 0).outcome = "pushed"
            => \E i \in 1..Len(origins) : origins[i].marker = pdf.tokens[m].dict

\* A marker's processing threw, was logged, and a later marker's record was
\* returned all the same.
C8_Witness ==
    /\ ExtractReturned
    /\ \E w \in 1..Len(warnings), i \in 1..Len(origins) :
          origins[i].marker > warnings[w].marker

(***************************************************************************)
(* A finished validateSignature call.                                      *)
(***************************************************************************)
Called == vret # None

Args == vcall[1]
Completion == vret[1]
Result == vret[1].value

Returned == Called /\ Completion.type = "return"

\* The payload went through fromDer and messageFromAsn1.
PayloadDecoded == Decode(Args.signature.contents).ok

HasSigner == PayloadDecoded /\ Len(Decode(Args.signature.contents).certificates) > 0

Signer == Decode(Args.signature.contents).certificates[1]

Chain == Decode(Args.signature.contents).certificates

ExpectedEnd == Args.signature.byteRange[3] + Args.signature.byteRange[4]

CoverageAsClaimed ==
    /\ Result.coverageStatus = "full" <=> ExpectedEnd = Args.pdfLength
    /\ Result.coverageStatus = "partial" <=> ExpectedEnd < Args.pdfLength
    /\ Result.coverageStatus = "unknown" <=> ExpectedEnd > Args.pdfLength

(***************************************************************************)
(* C3 as stated.  For every successfully decoded signature (no library     *)
(* call throwing), coverageStatus is 'full' iff byteRange[2] + byteRange[3]*)
(* equals the document length, 'partial' iff the sum is less, 'unknown'    *)
(* otherwise.                                                              *)
(***************************************************************************)
C3_CoverageWheneverDecoded ==
    (Returned /\ PayloadDecoded /\ Args.env.throwAt = "none") => CoverageAsClaimed

(***************************************************************************)
(* C3 as amended.  For every result with isValid = true, coverageStatus is *)
(* 'full' iff byteRange[2] + byteRange[3] equals the document length,      *)
(* 'partial' iff the sum is less, 'unknown' otherwise; and in every result *)
(* 'full' implies the second span ends at the end of the document.         *)
(***************************************************************************)
C3_CoverageWhenValid ==
    Returned =>
        /\ Result.isValid => CoverageAsClaimed
        /\ Result.coverageStatus = "full" => ExpectedEnd = Args.pdfLength

\* Full, partial and overshooting ranges all occur among the valid results.
C3_Witness ==
    /\ Returned
    /\ Result.isValid
    /\ Result.coverageStatus = "partial"
    /\ Args.signature.byteRange = <<0, 100, 200, 50>>
    /\ Args.pdfLength = 300

(***************************************************************************)
(* C4.  validateSignature never throws: every call returns a result, and   *)
(* every failure path (undecodable payload, no certificates, an exception  *)
(* while the certificate is read) returns with errorMessage populated.     *)
(***************************************************************************)
C4_NeverThrows ==
    Called =>
        /\ Completion.type = "return"
        /\ ( \/ ~PayloadDecoded
             \/ ~HasSigner
             \/ Args.env.throwAt \in {"fields", "selfSigned"} )
           => Result.errorMessage # None

\* A library call threw after the payload had decoded, and the call returned.
C4_Witness ==
    /\ Returned
    /\ HasSigner
    /\ Args.env.throwAt = "selfSigned"
    /\ Result.errorMessage # None

(***************************************************************************)
(* C5.  In every returned result, isValid = false implies errorMessage is  *)
(* present and non-empty, and isValid = true implies errorMessage absent.  *)
(***************************************************************************)
C5_InvalidHasMessage ==
    Returned =>
        /\ ~Result.isValid => (Result.errorMessage # None
                                 /\ Result.errorMessage[1] # "")
        /\ Result.isValid => Result.errorMessage = None

\* The failure that sets its own message: a payload without certificates.
C5_Witness ==
    /\ Returned
    /\ PayloadDecoded
    /\ ~HasSigner
    /\ ~Result.isValid
    /\ Result.errorMessage = Some("No certificates found in signature")

(***************************************************************************)
(* C6.  A payload that fails DER decoding yields isValid = false, a        *)
(* non-empty errorMessage, signerName and issuer 'Unknown', validFrom and  *)
(* validTo the zero date, coverageStatus 'unknown', and signatureIndex     *)
(* equal to the input signature's index.                                   *)
(***************************************************************************)
C6_DecodeFailureDefaults ==
    (Called /\ ~PayloadDecoded) =>
        /\ Completion.type = "return"
        /\ ~Result.isValid
        /\ Result.errorMessage # None /\ Result.errorMessage[1] # ""
        /\ Result.signerName = "Unknown"
        /\ Result.issuer = "Unknown"
        /\ Result.validFrom = ZeroDate
        /\ Result.validTo = ZeroDate
        /\ Result.coverageStatus = "unknown"
        /\ Result.signatureIndex = Args.signature.index

\* An undecodable payload under index 1 whose byte range reaches the end of
\* the document exactly.
C6_Witness ==
    /\ Returned
    /\ ~PayloadDecoded
    /\ Args.signature.index = 1
    /\ ExpectedEnd = Args.pdfLength
    /\ Result.signatureIndex = 1

SameSerialAsSigner ==
    /\ Args.trusted # None
    /\ HasSigner
    /\ Args.trusted[1].serialNumber = Signer.serialNumber

SignerRead == Returned /\ HasSigner /\ Args.env.throwAt # "fields"

C11_ExpiredOutsideClosedInterval ==
    SignerRead =>
        /\ Result.validFrom = Signer.notBefore
        /\ Result.validTo = Signer.notAfter
        /\ (Args.env.now < Result.validFrom \/ Args.env.now > Result.validTo)
              => Result.isExpired
        /\ ~Result.isExpired
              <=> (Result.validFrom <= Args.env.now /\ Args.env.now <= Result.validTo)

\* A certificate that is not yet valid is flagged expired.
C11_Witness ==
    /\ SignerRead
    /\ Args.env.now < Result.validFrom
    /\ Result.isExpired

(***************************************************************************)
(* C12.  For every validation failure (every returned result with          *)
(* isValid = false, a failure raised after the signer certificate was read *)
(* included), signerName and issuer are 'Unknown', validFrom and validTo   *)
(* the zero date, and isExpired, isSelfSigned and isTrusted false.         *)
(***************************************************************************)
C12_FailureKeepsDefaults ==
    (Returned /\ ~Result.isValid) =>
        /\ Result.signerName = "Unknown"
        /\ Result.issuer = "Unknown"
        /\ Result.validFrom = ZeroDate
        /\ Result.validTo = ZeroDate
        /\ ~Result.isExpired
        /\ ~Result.isSelfSigned
        /\ ~Result.isTrusted

(***************************************************************************)
(* C13.  Stripping the trailing zero padding is complete and idempotent:   *)
(* the contents hexToBytes returns is empty or ends in a non-zero byte,    *)
(* and stripping it again returns it unchanged.                            *)
(***************************************************************************)
C13_StrippingCompleteIdempotent ==
    Called =>
        /\ Result = <<>> \/ Result[Len(Result)] # 0
        /\ StripPadding(Result) = Result

\* Several padding bytes were stripped behind a payload with a zero byte
\* inside it.
C13_Witness ==
    /\ Called
    /\ Args.hex = <<0, 0, 0, 1, 0, 0>>
    /\ Result = <<0, 1>>

(***************************************************************************)
(* A request to the relay and what became of it.                           *)
(***************************************************************************)
Answered == relayPc = "done"

Fetched == upstream # <<>>

TargetHost ==
    CHOOSE host \in Hosts : host.name = NewURL(request[1].url[1]).hostname

(***************************************************************************)
(* C14.  The relay performs an upstream fetch only when the method is GET, *)
(* the Origin header is one of the allow-listed origins, a url parameter   *)
(* is present, its scheme is http or https, its host is not a loopback or  *)
(* private host, and the URL matches one of the certificate patterns;      *)
(* every other request is answered without an upstream fetch.              *)
(***************************************************************************)
C14_FetchOnlyWhenAllowed ==
    Fetched =>
        /\ request[1].method = "GET"
        /\ request[1].origin # None
        /\ request[1].origin[1] \in ALLOWED_ORIGINS
        /\ request[1].url # None
        /\ NewURL(request[1].url[1]).ok
        /\ NewURL(request[1].url[1]).protocol \in {"http:", "https:"}
        /\ TargetHost.is = "public"
        /\ MatchesAllowedPattern(request[1].url[1])

(***************************************************************************)
(* C15.  Every failure response of the relay is a structured JSON error    *)
(* whose status is the upstream response's failure status or one of 400,   *)
(* 403, 405 and 500; a 200 response is returned only after an upstream     *)
(* fetch succeeded and carries the upstream bytes.                         *)
(***************************************************************************)
C15_FailuresAreJsonErrors ==
    Answered =>
        /\ response[1].status >= 400 =>
              /\ response[1].body.kind = "json"
              /\ response[1].contentType = Some("application/json")
              /\ \/ response[1].status \in {400, 403, 405, 500}
                 \/ /\ settled # None
                    /\ settled[1].kind = "response"
                    /\ response[1].status = settled[1].status
        /\ response[1].status = 200 =>
              /\ settled # None
              /\ settled[1].kind = "response"
              /\ settled[1].status \in 200..299
              /\ response[1].body = [kind |-> "bytes", data |-> settled[1].bytes]
        /\ response[1].status >= 400 \/ response[1].status \in {200, 204}

(***************************************************************************)
(* C16.  Each record extractSignatures returns carries the byteRange and   *)
(* the contents of the signature dictionary its own marker belongs to,     *)
(* never those of a neighbouring dictionary inside the same search window. *)
(***************************************************************************)
C16_RecordFromOwnDictionary ==
    ExtractReturned =>
        \A i \in 1..Len(origins) :
            /\ origins[i].byteRange = origins[i].marker
            /\ origins[i].contents = origins[i].marker

ReachedSigningTime ==
    Returned /\ HasSigner /\ Args.env.throwAt \notin {"fields", "selfSigned"}

AuthenticatedAttributes == Decode(Args.signature.contents).authenticatedAttributes

C18_DictionaryTimePreferred ==
    ReachedSigningTime =>
        /\ Args.signature.signingTime # None =>
              Result.signatureDate =
                  Some(NewDateFromString(Args.signature.signingTime[1]))
        /\ (Args.signature.signingTime = None /\ Result.signatureDate # None) =>
              /\ AuthenticatedAttributes # None
              /\ \E k \in 1..Len(AuthenticatedAttributes[1]) :
                    /\ AuthenticatedAttributes[1][k].type = OidSigningTime
                    /\ Result.signatureDate[1].ms =
                           AuthenticatedAttributes[1][k].value
        /\ (Args.signature.signingTime = None /\ Args.env.throwAt = "attributes") =>
              /\ Result.signatureDate = None
              /\ Result.isValid
              /\ Result.errorMessage = None

\* Both sources are there and differ; the dictionary's is the one reported.
C18_Witness ==
    /\ ReachedSigningTime
    /\ Args.signature.signingTime # None
    /\ AuthenticatedAttributes # None
    /\ FindSigningTime(AuthenticatedAttributes[1], 1) # None
    /\ Result.signatureDate # FindSigningTime(AuthenticatedAttributes[1], 1)
    /\ Result.signatureDate = Some(NewDateFromString(Args.signature.signingTime[1]))

(***************************************************************************)
(* C19.  Algorithm name resolution returns the table name for an           *)
(* identifier of the lookup table, the raw identifier unchanged for a      *)
(* non-empty identifier outside the table, and 'Unknown' only when the     *)
(* identifier is absent or empty.                                          *)
(***************************************************************************)
ResolvedAsClaimed(table, identifier, name) ==
    /\ OrEmpty(identifier) \in DOMAIN table => name = table[OrEmpty(identifier)]
    /\ (OrEmpty(identifier) \notin DOMAIN table /\ OrEmpty(identifier) # "")
          => name = identifier[1]
    /\ name = "Unknown" <=> (identifier = None \/ identifier = Some(""))

C19_AlgorithmNames ==
    Called =>
        /\ ResolvedAsClaimed(DigestAlgorithms, Args.algorithmOid, Result.digest)
        /\ ResolvedAsClaimed(SignatureAlgorithms, Args.signatureOid,
                             Result.signature)

\* A signature-algorithm identifier handed to both resolvers: the digest
\* table does not hold it and passes it through, the signature table names it.
C19_Witness ==
    /\ Called
    /\ Args.algorithmOid = Some(OidSha256WithRsa)
    /\ Args.signatureOid = Some(OidSha256WithRsa)
    /\ Result.digest = OidSha256WithRsa
    /\ Result.signature = "RSA with SHA-256"

(***************************************************************************)
(* C20.  The background preloads are sequential: whatever the number of    *)
(* startBackgroundPreload calls and the interleaving of their idle tasks,  *)
(* the Ghostscript load has started only if PyMuPDF has reached READY or   *)
(* ERROR; it never starts while the PyMuPDF status is LOADING.             *)
(***************************************************************************)
C20_GhostscriptAfterPyMuPDF ==
    preloadState.ghostscript # "idle" => preloadState.pymupdf \in {"ready", "error"}

(***************************************************************************)
(* C21.  Each preload status only ever moves IDLE -> LOADING -> READY or   *)
(* ERROR, READY and ERROR being final (no retry), so each module's loader  *)
(* is invoked at most once per page whatever the interleaving of preload   *)
(* calls; whenever the PyMuPDF status is READY getPymupdfInstance returns  *)
(* an instance; the LibreOffice status never leaves IDLE; and on a         *)
(* LibreOffice conversion page nothing is scheduled.                       *)
(***************************************************************************)
StatusMove(m) ==
    \/ preloadState'[m] = preloadState[m]
    \/ preloadState[m] = "idle" /\ preloadState'[m] = "loading"
    \/ preloadState[m] = "loading" /\ preloadState'[m] \in {"ready", "error"}

PreloadInvariant ==
    /\ \A m \in Modules : loaderCalls[m] <= 1
    /\ preloadState.pymupdf = "ready" => getPymupdfInstance # "null"
    /\ preloadState.libreoffice = "idle"
    /\ isLibreOfficePage =>
          /\ tasks = <<>>
          /\ preloadState = [m \in Modules |-> "idle"]
          /\ loaderCalls = [m \in Modules |-> 0]

C21_StatusesMoveForwardOnce ==
    /\ []PreloadInvariant
    /\ [][\A m \in Modules : StatusMove(m)]_vars

\* Every scheduled task has run to its end, one loader failed, the other
\* succeeded, and each was invoked once.
C21_Witness ==
    /\ Len(tasks) = MaxCalls
    /\ \A t \in 1..Len(tasks) : tasks[t] = "done"
    /\ preloadState.pymupdf = "error"
    /\ preloadState.ghostscript = "ready"
    /\ loaderCalls.pymupdf = 1
    /\ loaderCalls.ghostscript = 1

(***************************************************************************)
(* C22.  In the PDF editor page, whatever the sequence and interleaving of *)
(* file uploads and remove/back clicks, the viewer is only ever            *)
(* initialised with an object URL that is un-revoked and equal to          *)
(* currentPdfUrl at the moment of initialisation, and at most one created  *)
(* object URL is un-revoked at any time.                                   *)
(***************************************************************************)
LiveUrls == { u \in 1..Len(objectUrls) : objectUrls[u] = "live" }

C22_ViewerGetsCurrentLiveUrl ==
    /\ \A i \in 1..Len(viewerInits) :
          /\ viewerInits[i].status = "live"
          /\ viewerInits[i].current = Some(viewerInits[i].src)
    /\ Cardinality(LiveUrls) <= 1

=============================================================================
